---- MODULE Spec2Model ----
(***************************************************************************)
(* Model of generate_passphrase.py: the wordlist parser                    *)
(* (WordlistFormat.parse, Word) and the click command generate_passphrase. *)
(*                                                                         *)
(* A string is a sequence of one-character strings, so that strip, the     *)
(* regular expressions and str.join are computed character by character.   *)
(* A wordlist file is the sequence of its lines (without the newline).     *)
(***************************************************************************)
EXTENDS Integers, Sequences, FiniteSets, TLC

----------------------------------------------------------------------------
(* Bounds *)

\* most lines of a wordlist file in the parser specification
MaxLines == 3
\* most characters of a wordlist file (all lines together) in the parser specification
MaxFileChars == 3
\* most lines of a wordlist file in the whole-run specification
RunMaxLines == 2
\* largest --count value
MaxCount == 2
\* most invalid replies typed at the --count prompt
MaxPromptRetries == 1

----------------------------------------------------------------------------
(* Characters: one representative per class the patterns tell apart *)

\* \d, \w, \S
Digits == {"1"}
\* \w, \S
Letters == {"a"}
\* allowed by [\w-], \S
Hyphen == "-"
\* \s, stripped by str.strip
Spaces == {" "}
\* \S only
Others == {"!"}

Alphabet == Digits \cup Letters \cup {Hyphen} \cup Spaces \cup Others

IsDigit(c) == c \in Digits
IsWordChar(c) == c \in Digits \cup Letters
IsSpace(c) == c \in Spaces

----------------------------------------------------------------------------
(* str.strip *)

RECURSIVE lstrip(_)
lstrip(s) == IF s # <<>> /\ IsSpace(Head(s)) THEN lstrip(Tail(s)) ELSE s

RECURSIVE rstrip(_)
rstrip(s) == IF s # <<>> /\ IsSpace(s[Len(s)])
             THEN rstrip(SubSeq(s, 1, Len(s) - 1))
             ELSE s

strip(s) == rstrip(lstrip(s))

----------------------------------------------------------------------------
(* Regular expressions.  A match is [matched |-> TRUE, word |-> group     *)
(* "word"]; NoMatch is Python's None.                                      *)

NoMatch == [matched |-> FALSE]

VALID_WORD_PATTERN_star(s) ==
    IF \A k \in 1..Len(s) : IsWordChar(s[k]) \/ s[k] = Hyphen
    THEN [matched |-> TRUE, word |-> s]
    ELSE NoMatch

\* re.compile("(?P<word>[\w-]+)").fullmatch(s)
VALID_WORD_PATTERN(s) ==
    IF Len(s) >= 1 /\ \A k \in 1..Len(s) : IsWordChar(s[k]) \/ s[k] = Hyphen
    THEN [matched |-> TRUE, word |-> s]
    ELSE NoMatch

\* The ways \d+\s*\S* can cover all of s: <<d, w>> is the number of
\* characters taken by \d+ and by \s*; \S* takes the rest.
DicelistSplits(s) ==
    { p \in (1..Len(s)) \X (0..Len(s)) :
        /\ p[1] + p[2] <= Len(s)
        /\ \A k \in 1..p[1] : IsDigit(s[k])
        /\ \A k \in (p[1] + 1)..(p[1] + p[2]) : IsSpace(s[k])
        /\ \A k \in (p[1] + p[2] + 1)..Len(s) : ~IsSpace(s[k]) }

\* The split the backtracking matcher finds first: both quantifiers are
\* greedy, so \d+ takes as much as any split allows, then \s* does.
GreedySplit(s) ==
    CHOOSE p \in DicelistSplits(s) :
        \A q \in DicelistSplits(s) :
            \/ q[1] < p[1]
            \/ q[1] = p[1] /\ q[2] <= p[2]

DICELIST_EFF_PATTERN_lazy_digits(s) ==
    IF DicelistSplits(s) = {}
    THEN NoMatch
    ELSE LET p == CHOOSE p \in DicelistSplits(s) :
                      \A q \in DicelistSplits(s) :
                          \/ q[1] > p[1]
                          \/ q[1] = p[1] /\ q[2] <= p[2]
         IN [matched |-> TRUE, word |-> SubSeq(s, p[1] + p[2] + 1, Len(s))]

\* re.compile("\d+\s*(?P<word>\S*)").fullmatch(s)
DICELIST_EFF_PATTERN(s) ==
    IF DicelistSplits(s) = {}
    THEN NoMatch
    ELSE LET p == GreedySplit(s)
         IN [matched |-> TRUE, word |-> SubSeq(s, p[1] + p[2] + 1, Len(s))]

WordlistFormat == {"plain", "dicelist-eff"}

\* WordlistFormat._line_pattern, applied as pattern.fullmatch(line)
line_pattern(fmt, line) ==
    IF fmt = "plain" THEN VALID_WORD_PATTERN(line) ELSE DICELIST_EFF_PATTERN(line)

----------------------------------------------------------------------------
(* Word and InvalidWordlist *)

ValueError == [exc |-> "ValueError"]

\* Word(index=..., word=...): the dataclass constructor with __post_init__
Word(word, index) ==
    IF VALID_WORD_PATTERN(word) = NoMatch
    THEN ValueError
    ELSE [word |-> word, index |-> index]

bad_line_zero_based(reason, lineno) ==
    [exc |-> "InvalidWordlist", reason |-> reason, lineno |-> lineno - 1]

\* bad_line(reason): raise InvalidWordlist(reason, lineno=lineno, ...); the
\* reason is <<"Not a valid line">> or <<"Invalid word", word>> (f"Invalid word {word!r}")
bad_line(reason, lineno) ==
    [exc |-> "InvalidWordlist", reason |-> reason, lineno |-> lineno]

next_index_lineno(result, lineno) == lineno - 1

\* index=len(result)
next_index(result, lineno) == Len(result)

----------------------------------------------------------------------------
(* WordlistFormat.parse: the loop over enumerate(file, start=1), from line *)
(* number lineno on with the words accepted so far in result.  The value   *)
(* is [ok |-> TRUE, words |-> list] for a return and                       *)
(* [ok |-> FALSE, error |-> exception] for a raise.                        *)

RECURSIVE parse_from(_, _, _, _)
parse_from(fmt, file, lineno, result) ==
    IF lineno > Len(file)
    THEN [ok |-> TRUE, words |-> result]
    ELSE LET line == strip(file[lineno])
         IN IF line = <<>>
            THEN parse_from(fmt, file, lineno + 1, result)
            ELSE LET match == line_pattern(fmt, line)
                 IN IF match = NoMatch
                    THEN [ok |-> FALSE, error |-> bad_line(<<"Not a valid line">>, lineno)]
                    ELSE IF VALID_WORD_PATTERN(match.word) = NoMatch
                    THEN [ok |-> FALSE, error |-> bad_line(<<"Invalid word", match.word>>, lineno)]
                    ELSE LET w == Word(match.word, next_index(result, lineno))
                         IN IF w = ValueError
                            THEN [ok |-> FALSE, error |-> ValueError]
                            ELSE parse_from(fmt, file, lineno + 1, Append(result, w))

parse_reject_empty(fmt, file) ==
    LET r == parse_from(fmt, file, 1, <<>>)
    IN IF r.ok /\ r.words = <<>>
       THEN [ok |-> FALSE, error |-> bad_line(<<"Empty wordlist">>, 1)]
       ELSE r

\* result = []; for lineno, line in enumerate(file, start=1): ...; return result
parse(fmt, file) == parse_from(fmt, file, 1, <<>>)

----------------------------------------------------------------------------
(* str.join, secrets.choice, and what the command writes *)

RECURSIVE join_no_separator(_, _)
join_no_separator(sep, words) ==
    IF words = <<>> THEN <<>> ELSE Head(words) \o join_no_separator(sep, Tail(words))

\* join_char.join(result_words)
RECURSIVE join(_, _)
join(sep, words) ==
    IF words = <<>> THEN <<>>
    ELSE IF Len(words) = 1 THEN Head(words)
    ELSE Head(words) \o sep \o join(sep, Tail(words))

\* secrets.choice(seq): any element; IndexError on an empty sequence
choices(seq) == { seq[k] : k \in 1..Len(seq) }

log_pick_always(q, err, n, pick) ==
    Append(err, [kind |-> "pick", i |-> n, index |-> pick.index, word |-> pick.word])

\* if not quiet: print(f"{i:02} picked", pick.describe(), file=sys.stderr)
log_pick(q, err, n, pick) ==
    IF ~q
    THEN Append(err, [kind |-> "pick", i |-> n, index |-> pick.index, word |-> pick.word])
    ELSE err

\* if not quiet: print(file=sys.stderr)
log_blank(q, err) == IF ~q THEN Append(err, [kind |-> "blank"]) ELSE err

----------------------------------------------------------------------------
(* State *)

VARIABLES
    wordlist_format,  \* --wordlist-format
    file,             \* the lines of the file at --wordlist
    path_exists,      \* whether the --wordlist path names an existing readable file
    count_given,      \* whether --count was given on the command line
    word_count,       \* --count (0: not yet known, or given below 1)
    join_char,        \* --join-char
    quiet,            \* --quiet
    pc,               \* where the run is
    file_open,        \* whether wordlist_file is open
    wordlist,         \* the list parse returned
    exc,              \* the exception raised, if any
    i,                \* the number of words drawn
    result_words,     \* the texts of the words drawn
    retries,          \* invalid replies typed at the --count prompt
    stderr,           \* what was written to sys.stderr
    stdout            \* what was written to sys.stdout

vars == <<wordlist_format, file, path_exists, count_given, word_count, join_char,
          quiet, pc, file_open, wordlist, exc, i, result_words, retries, stderr, stdout>>

inputs == <<wordlist_format, file, path_exists, count_given, join_char, quiet>>

NoExc == [exc |-> "none"]

\* the sum of the first n entries of a sequence of numbers
RECURSIVE SumTo(_, _)
SumTo(lens, n) == IF n = 0 THEN 0 ELSE lens[n] + SumTo(lens, n - 1)

\* the line lengths of the files of the parser specification
Shapes ==
    UNION { { lens \in [1..n -> 0..MaxFileChars] : SumTo(lens, n) <= MaxFileChars } :
            n \in 0..MaxLines }

\* the file whose lines have the lengths lens and whose characters are cs
Split(cs, lens) ==
    [ k \in 1..Len(lens) |->
        SubSeq(cs, SumTo(lens, k - 1) + 1, SumTo(lens, k)) ]

\* the lines of the files of the whole-run specification: blank, a plain
\* word, a word with a hyphen after a digit, a dice-list entry, a bad line
RunLines == { <<" ">>, <<"a">>, <<"1", "-">>, <<"1", " ", "a">>, <<"a", "!">> }

RunFiles == UNION { [1..n -> RunLines] : n \in 0..RunMaxLines }

\* a --wordlist-format value that is no member of the enumeration
OtherFormat == "other"

JoinChars == { <<>>, <<" ">>, <<"-">>, <<"-", "-">> }

Started ==
    /\ file_open = FALSE
    /\ wordlist = <<>>
    /\ exc = NoExc
    /\ i = 0
    /\ result_words = <<>>
    /\ retries = 0
    /\ stderr = <<>>
    /\ stdout = <<>>

\* the command line is given and click.main is about to process it
Init ==
    /\ wordlist_format \in WordlistFormat \cup {OtherFormat}
    /\ file \in RunFiles
    /\ path_exists \in BOOLEAN
    /\ count_given \in BOOLEAN
    /\ word_count \in IF count_given THEN 0..MaxCount ELSE {0}
    /\ join_char \in JoinChars
    /\ quiet \in BOOLEAN
    /\ pc = "args"
    /\ Started

----------------------------------------------------------------------------
(* click processing the command line, before the body of the command *)

\* click.Choice([fmt.value for fmt in WordlistFormat]): BadParameter
ClickBadFormat ==
    /\ pc = "args"
    /\ wordlist_format \notin WordlistFormat
    /\ exc' = [exc |-> "UsageError", param |-> "wordlist_format"]
    /\ pc' = "raised"
    /\ UNCHANGED <<inputs, word_count, file_open, wordlist, i, result_words,
                   retries, stderr, stdout>>

\* click.Path(exists=True, dir_okay=False, readable=True): BadParameter
ClickBadPath ==
    /\ pc = "args"
    /\ ~path_exists
    /\ exc' = [exc |-> "UsageError", param |-> "wordlist"]
    /\ pc' = "raised"
    /\ UNCHANGED <<inputs, word_count, file_open, wordlist, i, result_words,
                   retries, stderr, stdout>>

\* click.IntRange(min=1): BadParameter for a --count below 1
ClickBadCount ==
    /\ pc = "args"
    /\ count_given
    /\ word_count < 1
    /\ exc' = [exc |-> "UsageError", param |-> "count"]
    /\ pc' = "raised"
    /\ UNCHANGED <<inputs, word_count, file_open, wordlist, i, result_words,
                   retries, stderr, stdout>>

\* every option given converts; a missing --count is prompted for
ClickArgsOk ==
    /\ pc = "args"
    /\ wordlist_format \in WordlistFormat
    /\ path_exists
    /\ count_given => word_count >= 1
    /\ pc' = IF count_given THEN "body" ELSE "prompt"
    /\ UNCHANGED <<inputs, word_count, file_open, wordlist, exc, i, result_words,
                   retries, stderr, stdout>>

\* prompt="Please specify the number of words to generate": click.prompt
\* echoes the prompt text with err=False, reads a reply and converts it
PromptValid ==
    /\ pc = "prompt"
    /\ \E k \in 1..MaxCount : word_count' = k
    /\ stdout' = Append(stdout, [kind |-> "prompt"])
    /\ pc' = "body"
    /\ UNCHANGED <<inputs, file_open, wordlist, exc, i, result_words, retries, stderr>>

\* a reply that is no integer >= 1: the error is echoed and the prompt repeats
PromptInvalid ==
    /\ pc = "prompt"
    /\ retries < MaxPromptRetries
    /\ retries' = retries + 1
    /\ stdout' = stdout \o << [kind |-> "prompt"], [kind |-> "prompt_error"] >>
    /\ UNCHANGED <<inputs, word_count, pc, file_open, wordlist, exc, i, result_words,
                   stderr>>

\* end of input or an interrupt at the prompt: click.prompt raises Abort
PromptAbort ==
    /\ pc = "prompt"
    /\ stdout' = Append(stdout, [kind |-> "prompt"])
    /\ exc' = [exc |-> "Abort"]
    /\ pc' = "raised"
    /\ UNCHANGED <<inputs, word_count, file_open, wordlist, i, result_words, retries,
                   stderr>>

----------------------------------------------------------------------------
(* generate_passphrase *)

\* if len(join_char) != 1: raise click.ClickException(...)
CheckJoinChar ==
    /\ pc = "body"
    /\ IF Len(join_char) # 1
       THEN /\ exc' = [exc |-> "ClickException", reason |-> "join char"]
            /\ pc' = "raised"
       ELSE /\ exc' = exc
            /\ pc' = "open"
    /\ UNCHANGED <<inputs, word_count, file_open, wordlist, i, result_words,
                   retries, stderr, stdout>>

\* with open(wordlist_path) as wordlist_file:
OpenFile ==
    /\ pc = "open"
    /\ file_open' = TRUE
    /\ pc' = "parse"
    /\ UNCHANGED <<inputs, word_count, wordlist, exc, i, result_words, retries,
                   stderr, stdout>>

\* open() raising OSError: the file went away after click checked it
OpenFails ==
    /\ pc = "open"
    /\ exc' = [exc |-> "OSError"]
    /\ pc' = "raised"
    /\ UNCHANGED <<inputs, word_count, file_open, wordlist, i, result_words,
                   retries, stderr, stdout>>

\* wordlist = wordlist_format.parse(wordlist_file, file_path=wordlist_path)
ParseFile ==
    /\ pc = "parse"
    /\ LET r == parse(wordlist_format, file)
       IN IF r.ok
          THEN /\ wordlist' = r.words
               /\ exc' = exc
          ELSE /\ wordlist' = wordlist
               /\ exc' = r.error
    /\ pc' = "with_exit"
    /\ UNCHANGED <<inputs, word_count, file_open, i, result_words, retries,
                   stderr, stdout>>

ExitWithLeak ==
    /\ pc = "with_exit"
    /\ pc' = IF exc = NoExc THEN "loop" ELSE "raised"
    /\ UNCHANGED <<inputs, word_count, file_open, wordlist, exc, i, result_words,
                   retries, stderr, stdout>>

\* leaving the with block, normally or by the exception: the file is closed
ExitWith ==
    /\ pc = "with_exit"
    /\ file_open' = FALSE
    /\ pc' = IF exc = NoExc THEN "loop" ELSE "raised"
    /\ UNCHANGED <<inputs, word_count, wordlist, exc, i, result_words, retries,
                   stderr, stdout>>

\* one iteration of for i in range(word_count)
Draw ==
    /\ pc = "loop"
    /\ i < word_count
    /\ IF wordlist = <<>>
       THEN /\ exc' = [exc |-> "IndexError"]
            /\ pc' = "raised"
            /\ UNCHANGED <<i, result_words, stderr>>
       ELSE /\ \E pick \in choices(wordlist) :
                 /\ stderr' = log_pick(quiet, stderr, i, pick)
                 /\ result_words' = Append(result_words, pick.word)
            /\ i' = i + 1
            /\ UNCHANGED <<exc, pc>>
    /\ UNCHANGED <<inputs, word_count, file_open, wordlist, retries, stdout>>

\* after the loop: the blank line, the assertion, the passphrase
Finish ==
    /\ pc = "loop"
    /\ i = word_count
    /\ stderr' = log_blank(quiet, stderr)
    /\ IF Len(result_words) = word_count /\ word_count > 0
       THEN /\ stdout' = Append(stdout, [kind |-> "print",
                                         text |-> join(join_char, result_words)])
            /\ pc' = "done"
            /\ exc' = exc
       ELSE /\ stdout' = stdout
            /\ pc' = "raised"
            /\ exc' = [exc |-> "AssertionError"]
    /\ UNCHANGED <<inputs, word_count, file_open, wordlist, i, result_words, retries>>

----------------------------------------------------------------------------
(* The exception leaves the command: click.main shows a ClickException    *)
(* (UsageError is one) or "Aborted!" on stderr; any other exception leaves *)
(* main and the interpreter prints its traceback on stderr.                *)

IsClickException(e) ==
    e.exc \in {"ClickException", "UsageError", "InvalidWordlist", "Abort"}

ShowError ==
    /\ pc = "raised"
    /\ IsClickException(exc)
    /\ stderr' = Append(stderr, [kind |-> "error", exc |-> exc])
    /\ pc' = "exit_error"
    /\ UNCHANGED <<inputs, word_count, file_open, wordlist, exc, i, result_words,
                   retries, stdout>>

Traceback ==
    /\ pc = "raised"
    /\ ~IsClickException(exc)
    /\ stderr' = Append(stderr, [kind |-> "traceback", exc |-> exc])
    /\ pc' = "exit_crash"
    /\ UNCHANGED <<inputs, word_count, file_open, wordlist, exc, i, result_words,
                   retries, stdout>>

Next ==
    \/ ClickBadFormat
    \/ ClickBadPath
    \/ ClickBadCount
    \/ ClickArgsOk
    \/ PromptValid
    \/ PromptInvalid
    \/ PromptAbort
    \/ CheckJoinChar
    \/ OpenFile
    \/ OpenFails
    \/ ParseFile
    \/ ExitWith
    \/ Draw
    \/ Finish
    \/ ShowError
    \/ Traceback

Spec == Init /\ [][Next]_vars

----------------------------------------------------------------------------
(* The parser specification: every file within the bounds, from the point  *)
(* where the command has opened it, through parse to the first draw.       *)

InitParse ==
    /\ wordlist_format \in WordlistFormat
    /\ \E lens \in Shapes :
           \E cs \in [1..SumTo(lens, Len(lens)) -> Alphabet] :
               file = Split(cs, lens)
    /\ path_exists = TRUE
    /\ count_given = TRUE
    /\ word_count = 1
    /\ join_char = <<" ">>
    /\ quiet = TRUE
    /\ pc = "parse"
    /\ file_open = TRUE
    /\ wordlist = <<>>
    /\ exc = NoExc
    /\ i = 0
    /\ result_words = <<>>
    /\ retries = 0
    /\ stderr = <<>>
    /\ stdout = <<>>

NextParse ==
    \/ ParseFile
    \/ ExitWith
    \/ Draw

SpecParse == InitParse /\ [][NextParse]_vars

----------------------------------------------------------------------------
(* Vocabulary of the properties, stated without the parser's operators *)

\* a whitespace-only line
IsBlank(l) == \A k \in 1..Len(l) : l[k] \in Spaces

\* one or more word characters or hyphens, nothing else
WellFormed(t) ==
    /\ Len(t) >= 1
    /\ \A k \in 1..Len(t) : t[k] \in Digits \cup Letters \cup {Hyphen}

\* the line without its surrounding whitespace
Trimmed(l) ==
    IF IsBlank(l) THEN <<>>
    ELSE LET a == CHOOSE a \in 1..Len(l) :
                      l[a] \notin Spaces /\ \A k \in 1..(a - 1) : l[k] \in Spaces
             b == CHOOSE b \in 1..Len(l) :
                      l[b] \notin Spaces /\ \A k \in (b + 1)..Len(l) : l[k] \in Spaces
         IN SubSeq(l, a, b)

\* number of non-blank lines among the first n lines of f
Rank(f, n) == Cardinality({ k \in 1..n : ~IsBlank(f[k]) })

\* the line passes the format's pattern and the word-shape check
Accepted(fmt, l) ==
    LET m == line_pattern(fmt, Trimmed(l))
    IN m # NoMatch /\ WellFormed(m.word)

\* the non-blank lines the format does not accept
BadLines(fmt, f) == { n \in 1..Len(f) : ~IsBlank(f[n]) /\ ~Accepted(fmt, f[n]) }

Min(S) == CHOOSE x \in S : \A y \in S : x <= y

InsertAt(f, p, l) == SubSeq(f, 1, p) \o <<l>> \o SubSeq(f, p + 1, Len(f))

RemoveAt(f, p) == SubSeq(f, 1, p - 1) \o SubSeq(f, p + 1, Len(f))

BlankLines == { <<>>, <<" ">>, <<" ", " ">> }

\* parse has just returned or raised
Parsed == pc = "with_exit"

----------------------------------------------------------------------------
(* C1 *)

\* C1: when every non-blank line of the file is valid under the format,
\* parse returns one Word per non-blank line, in file order, the i-th with
\* index i and the line's word as text; and the file with a blank line
\* inserted anywhere, or with any of its blank lines removed, parses to the
\* same list.
C1_OneWordPerNonBlankLine ==
    (Parsed /\ BadLines(wordlist_format, file) = {}) =>
        /\ exc = NoExc
        /\ Len(wordlist) = Rank(file, Len(file))
        /\ \A n \in 1..Len(file) :
               ~IsBlank(file[n]) =>
                   /\ wordlist[Rank(file, n)].index = Rank(file, n) - 1
                   /\ wordlist[Rank(file, n)].word
                          = line_pattern(wordlist_format, Trimmed(file[n])).word
        /\ \A p \in 0..Len(file) : \A b \in BlankLines :
               parse(wordlist_format, InsertAt(file, p, b))
                   = [ok |-> TRUE, words |-> wordlist]
        /\ \A p \in 1..Len(file) :
               IsBlank(file[p]) =>
                   parse(wordlist_format, RemoveAt(file, p))
                       = [ok |-> TRUE, words |-> wordlist]

\* two words accepted around a blank line
C1_Witness ==
    /\ Parsed
    /\ exc = NoExc
    /\ Len(file) = 3
    /\ IsBlank(file[2])
    /\ Len(wordlist) = 2
    /\ wordlist[2].index = 1

----------------------------------------------------------------------------
(* C5 *)

DigitsOnly(s) == Len(s) >= 1 /\ \A k \in 1..Len(s) : s[k] \in Digits

\* the ways to read s, not all digits, as <one or more digits><optional
\* whitespace><word> with a well-formed word: <<d, w>> are the lengths of
\* the first two parts
Readings(s) ==
    { p \in (1..Len(s)) \X (0..Len(s)) :
        /\ ~DigitsOnly(s)
        /\ p[1] + p[2] < Len(s)
        /\ \A k \in 1..p[1] : s[k] \in Digits
        /\ \A k \in (p[1] + 1)..(p[1] + p[2]) : s[k] \in Spaces
        /\ WellFormed(SubSeq(s, p[1] + p[2] + 1, Len(s))) }

\* the readings whose digits are the whole leading run of digits
WholeRunReadings(s) ==
    { p \in Readings(s) : p[2] > 0 \/ s[p[1] + 1] \notin Digits }

\* parse got as far as line n, and accepted it
ReachedLine(n) == exc = NoExc \/ exc.lineno >= n
AcceptedLine(n) == exc = NoExc \/ exc.lineno > n

\* dice-list lines as the parser treats them, for the readings R(s) of a line
DiceLines(R(_)) ==
    (Parsed /\ wordlist_format = "dicelist-eff") =>
        \A n \in 1..Len(file) :
            ReachedLine(n) =>
                /\ \A p \in R(Trimmed(file[n])) :
                       /\ AcceptedLine(n)
                       /\ exc = NoExc =>
                              wordlist[Rank(file, n)].word
                                  = SubSeq(Trimmed(file[n]), p[1] + p[2] + 1,
                                           Len(Trimmed(file[n])))
                /\ DigitsOnly(Trimmed(file[n])) =>
                       /\ exc # NoExc
                       /\ exc.lineno = n
                       /\ exc.reason = <<"Invalid word", <<>>>>

\* C5 as stated: under dicelist-eff every line that reads as
\* <digits><optional whitespace><word> parses to the Word with text <word>,
\* and a digits-only line is rejected with the reason "Invalid word".
C5_AnyReading == DiceLines(Readings)

\* C5, amended: the same for the readings in which <digits> is the whole
\* leading run of digits (whitespace follows it, or <word> does not begin
\* with a digit); a digits-only line is rejected with "Invalid word".
C5_WholeDigitRun == DiceLines(WholeRunReadings)

\* "1 a" parsed to the word "a"
C5_Witness ==
    /\ Parsed
    /\ wordlist_format = "dicelist-eff"
    /\ exc = NoExc
    /\ \E n \in 1..Len(file) :
           /\ \E p \in WholeRunReadings(Trimmed(file[n])) : p[2] > 0
           /\ wordlist[Rank(file, n)].word = <<"a">>

----------------------------------------------------------------------------
(* C6 *)

\* C6: when some non-blank line fails the line pattern or the word-shape
\* check, parse raises InvalidWordlist for the first such line, lineno being
\* its 1-based position among all the lines of the file, blank ones
\* included, and no list is returned (the run draws nothing).
C6_FirstBadLine ==
    (pc # "parse" /\ BadLines(wordlist_format, file) # {}) =>
        LET n == Min(BadLines(wordlist_format, file))
        IN /\ exc.exc = "InvalidWordlist"
           /\ exc.lineno = n
           /\ exc.reason =
                  IF line_pattern(wordlist_format, Trimmed(file[n])) = NoMatch
                  THEN <<"Not a valid line">>
                  ELSE <<"Invalid word",
                         line_pattern(wordlist_format, Trimmed(file[n])).word>>
           /\ wordlist = <<>>
           /\ pc \in {"with_exit", "raised"}
           /\ i = 0

\* an accepted line, a blank line, then a bad line: the error is on line 3
\* although one word was accepted
C6_Witness ==
    /\ Parsed
    /\ exc.exc = "InvalidWordlist"
    /\ exc.lineno = 3
    /\ ~IsBlank(file[1])
    /\ IsBlank(file[2])

----------------------------------------------------------------------------
(* C8 *)

\* C8: every Word of the parsed list, under either format, and every word
\* drawn has a non-empty text of word characters and hyphens only; and
\* constructing a Word from any line of the file gives a Word with that text
\* when the text is well formed and fails otherwise.
C8_WordsWellFormed ==
    /\ \A k \in 1..Len(wordlist) : WellFormed(wordlist[k].word)
    /\ \A k \in 1..Len(result_words) : WellFormed(result_words[k])
    /\ \A n \in 1..Len(file) :
           Word(file[n], 0) = IF WellFormed(file[n])
                              THEN [word |-> file[n], index |-> 0]
                              ELSE ValueError

\* a word with a hyphen was drawn from a file that also holds a line no
\* Word can be made of
C8_Witness ==
    /\ i = 1
    /\ \E k \in 1..Len(result_words[1]) : result_words[1][k] = Hyphen
    /\ \E n \in 1..Len(file) : Word(file[n], 0) = ValueError

----------------------------------------------------------------------------
(* Vocabulary of the whole-run properties *)

Succeeded == pc = "done"
Failed == pc \in {"raised", "exit_error", "exit_crash"}

\* the lines print wrote to stdout
Printed == SelectSeq(stdout, LAMBDA e : e.kind = "print")

\* number of occurrences of character c in text t
Occurrences(c, t) == Cardinality({ k \in 1..Len(t) : t[k] = c })

\* total length of the first n strings of ws
RECURSIVE LenTo(_, _)
LenTo(ws, n) == IF n = 0 THEN 0 ELSE Len(ws[n]) + LenTo(ws, n - 1)

\* occurrences of c in the first n strings of ws
RECURSIVE OccurrencesTo(_, _, _)
OccurrencesTo(c, ws, n) ==
    IF n = 0 THEN 0 ELSE Occurrences(c, ws[n]) + OccurrencesTo(c, ws, n - 1)

\* where the k-th word begins in the passphrase, counted from 0: after the
\* k-1 words before it and one join character behind each of them
Offset(ws, k) == LenTo(ws, k - 1) + (k - 1)

----------------------------------------------------------------------------
(* C2 *)

\* C2 as stated: a successful run prints one line made of word_count words,
\* and the line holds exactly word_count - 1 occurrences of the join
\* character.
C2_ExactlyKMinusOneJoinChars ==
    Succeeded =>
        /\ Len(result_words) = word_count
        /\ Len(Printed) = 1
        /\ Occurrences(join_char[1], Printed[1].text) = word_count - 1

\* C2, amended: a successful run prints one line, the word_count drawn
\* words in draw order with exactly one join character between neighbours:
\* word_count - 1 join characters join the words, and the line holds these
\* plus the occurrences of the join character inside the drawn words.
C2_KWordsJoined ==
    Succeeded =>
        /\ word_count >= 1
        /\ Len(result_words) = word_count
        /\ Len(join_char) = 1
        /\ Len(Printed) = 1
        /\ LET text == Printed[1].text
           IN /\ Len(text) = LenTo(result_words, word_count) + (word_count - 1)
              /\ \A k \in 1..word_count :
                     /\ SubSeq(text, Offset(result_words, k) + 1,
                               Offset(result_words, k) + Len(result_words[k]))
                            = result_words[k]
                     /\ k > 1 => text[Offset(result_words, k)] = join_char[1]
              /\ Occurrences(join_char[1], text)
                     = (word_count - 1)
                       + OccurrencesTo(join_char[1], result_words, word_count)

\* two words, one of them with a hyphen, joined by a hyphen
C2_Witness ==
    /\ Succeeded
    /\ word_count = 2
    /\ join_char = <<"-">>
    /\ Occurrences("-", Printed[1].text) = 2

----------------------------------------------------------------------------
(* C3 *)

\* C3: a run whose --join-char is not one character long ends with the
\* join-character error, whether or not the --wordlist path exists, and
\* never opens the file.
C3_JoinCharErrorFirst ==
    (Len(join_char) # 1) =>
        /\ ~file_open
        /\ Failed => exc = [exc |-> "ClickException", reason |-> "join char"]

----------------------------------------------------------------------------
(* C4 *)

\* the pick lines of draws 0..n-1, then one blank line
IsPickTrace(err, n) ==
    /\ Len(err) = n + 1
    /\ \A k \in 1..n : err[k].kind = "pick" /\ err[k].i = k - 1
    /\ err[n + 1].kind = "blank"

\* C4 as stated: a quiet run writes nothing to stderr; a successful run
\* that is not quiet writes word_count pick lines, for draws 0..word_count-1
\* in order, then one blank line to stderr, and one line to stdout.
C4_QuietWritesNothing ==
    /\ quiet => stderr = <<>>
    /\ (~quiet /\ Succeeded) =>
           /\ IsPickTrace(stderr, word_count)
           /\ Len(SelectSeq(stdout, LAMBDA e : e.kind # "prompt")) = 1

\* C4, amended: a quiet run writes nothing to stderr but the report of the
\* error that ends it, so a successful quiet run writes nothing there; a
\* successful run that is not quiet writes word_count pick lines, for draws
\* 0..word_count-1 in order, then one blank line to stderr, and the command
\* prints one line to stdout, the last thing written there: what precedes
\* it is the --count prompt, and nothing does when --count was given.
C4_QuietWritesOnlyTheError ==
    /\ quiet =>
           \/ stderr = <<>>
           \/ /\ pc \in {"exit_error", "exit_crash"}
              /\ Len(stderr) = 1
              /\ stderr[1].kind \in {"error", "traceback"}
    /\ (~quiet /\ Succeeded) =>
           /\ IsPickTrace(stderr, word_count)
           /\ Len(Printed) = 1
           /\ stdout[Len(stdout)].kind = "print"
           /\ \A k \in 1..(Len(stdout) - 1) :
                  stdout[k].kind \in {"prompt", "prompt_error"}
           /\ count_given => Len(stdout) = 1

\* a successful run of two draws that is not quiet
C4_Witness ==
    /\ ~quiet
    /\ Succeeded
    /\ word_count = 2
    /\ Len(stderr) = 3

----------------------------------------------------------------------------
(* C7 *)

\* C7: whatever the run, all that is ever written to stdout is the one
\* passphrase line, and a run that fails writes nothing there and draws no
\* word.
C7_OnlyThePassphraseOnStdout ==
    /\ \A k \in 1..Len(stdout) : stdout[k].kind = "print"
    /\ Len(stdout) <= 1
    /\ (Failed /\ exc.exc \in {"ClickException", "UsageError", "InvalidWordlist"}) =>
           stdout = <<>> /\ i = 0

----------------------------------------------------------------------------
(* C9 *)

\* C9: the file is open only while parse runs and until the with block is
\* left: the join character has passed its check by then, parse runs with
\* the file open, and the file is closed in every state where a word is
\* drawn, the command writes, or an exception has left the with block.
C9_FileScopedToParse ==
    /\ file_open =>
           /\ pc \in {"parse", "with_exit"}
           /\ Len(join_char) = 1
           /\ i = 0
           /\ stderr = <<>>
           /\ Printed = <<>>
    /\ pc \in {"parse", "with_exit"} => file_open
    /\ pc \in {"loop", "done", "raised", "exit_error", "exit_crash"} => ~file_open

\* the parse error has left the with block and the file is closed
C9_Witness ==
    /\ pc = "raised"
    /\ exc.exc = "InvalidWordlist"
    /\ ~file_open

----------------------------------------------------------------------------
(* C10 *)

\* C10: a file with no non-blank line is not rejected by parse, which
\* returns the empty list; the run then fails at the first draw, with
\* nothing drawn, so it prints no passphrase and never succeeds.
C10_EmptyWordlistFailsAtFirstDraw ==
    (\A n \in 1..Len(file) : IsBlank(file[n])) =>
        /\ parse(wordlist_format, file) = [ok |-> TRUE, words |-> <<>>]
        /\ exc.exc # "InvalidWordlist"
        /\ pc = "with_exit" => exc = NoExc
        /\ pc = "loop" => i = 0 /\ wordlist = <<>> /\ ENABLED Draw
        /\ exc.exc = "IndexError" => i = 0 /\ result_words = <<>>
        /\ ~Succeeded
        /\ Printed = <<>>

\* a file of blank lines only: the run crashed at its first draw
C10_Witness ==
    /\ Len(file) >= 1
    /\ \A n \in 1..Len(file) : IsBlank(file[n])
    /\ pc = "exit_crash"
    /\ exc.exc = "IndexError"
    /\ i = 0

====
